---------------------------- MODULE Spec2Model ----------------------------
(***************************************************************************)
(* MediConnect backend (src/server.js): the access guard, the token        *)
(* service, the three register/login flows, the two searches and the       *)
(* owner-scoped CRUD of doctors and medicines, as a state machine.         *)
(*                                                                         *)
(* A request occupies a slot p of Procs.  Node runs the synchronous part   *)
(* of a request (the guard and the handler up to its first await) in one   *)
(* turn of the event loop: that is the action Arrive.  Every               *)
(* `await pool.query(...)` is one statement executed by the database: one  *)
(* action each, so two requests interleave between their statements.       *)
(* Text columns are sequences of one-character strings.                    *)
(***************************************************************************)
EXTENDS Integers, Sequences, FiniteSets, TLC

VARIABLES
    now,         \* the clock jsonwebtoken reads, in ticks
    users,       \* table users: set of rows
    hospitals,   \* table hospitals
    pharmacies,  \* table pharmacies
    doctors,     \* table doctors
    medicines,   \* table medicines
    serial,      \* the SERIAL sequence of every table: last value handed out
    issued,      \* tokens the clients hold (sent in a register/login response)
    pc,          \* per request slot: where the handler stands
    req,         \* per request slot: the request, and req.user once the guard set it
    res          \* per request slot: the response sent

vars == <<now, users, hospitals, pharmacies, doctors, medicines, serial, issued, pc, req, res>>
tables == <<users, hospitals, pharmacies, doctors, medicines, serial>>

-----------------------------------------------------------------------------
(* Bounds of the model *)

NumProcs == 2
MaxTime == 2
JWT_EXPIRE == 1    \* the lifetime of a token (JWT_EXPIRE=7d), in ticks
MaxRows == 1
MaxFound == 2

Procs == 1..NumProcs
Roles == {"user", "hospital", "pharmacy"}

-----------------------------------------------------------------------------
(* Responses: res.status(s).json({success, message, data, count}) *)

NoRes == [status |-> 0, message |-> "", data |-> <<>>, token |-> <<>>]
Json(status, message) == [status |-> status, message |-> message, data |-> <<>>, token |-> <<>>]
JsonData(status, message, data) == [status |-> status, message |-> message, data |-> data, token |-> <<>>]
JsonAuth(status, message, row, token) ==
    [status |-> status, message |-> message, data |-> <<row>>, token |-> <<token>>]

NoReq == [handler |-> "none", authorization |-> <<>>, input |-> <<>>, user |-> <<>>]

-----------------------------------------------------------------------------
(* Token service *)

JWT_SECRET == "JWT_SECRET"

\* generateToken: jwt.sign({id, userType}, JWT_SECRET, {expiresIn: JWT_EXPIRE})
generateToken(id, userType) ==
    [id |-> id, userType |-> userType, iat |-> now, exp |-> now + JWT_EXPIRE, sig |-> JWT_SECRET]

\* jwt.verify(token, JWT_SECRET): throws (<<>>) on a signature made with another
\* key and on clockTimestamp >= exp; otherwise returns the payload.
jwtVerify(token) ==
    IF token.sig # JWT_SECRET THEN <<>>
    ELSE IF now >= token.exp THEN <<>>
    ELSE <<[id |-> token.id, userType |-> token.userType, iat |-> token.iat, exp |-> token.exp]>>

\* req.headers.authorization?.split(' ')[1]: the header is its space-separated parts
BearerToken(authorization) ==
    IF Len(authorization) >= 2 THEN <<authorization[2]>> ELSE <<>>

Guard(next, user, response) == [next |-> next, user |-> user, res |-> response]

\* a guard that checks the role of the unverified payload first
authMiddleware_RoleFirst(userType, authorization) ==
    LET token == BearerToken(authorization) IN
    IF token = <<>> THEN Guard(FALSE, <<>>, Json(401, "Access denied. No token provided."))
    ELSE IF userType # "" /\ token[1].userType # userType
         THEN Guard(FALSE, <<>>, Json(403, "Access denied. Insufficient permissions."))
    ELSE LET decoded == jwtVerify(token[1]) IN
         IF decoded = <<>> THEN Guard(FALSE, <<>>, Json(401, "Invalid token."))
         ELSE Guard(TRUE, decoded, NoRes)

\* a guard that never checks the role
authMiddleware_NoRole(userType, authorization) ==
    LET token == BearerToken(authorization) IN
    IF token = <<>> THEN Guard(FALSE, <<>>, Json(401, "Access denied. No token provided."))
    ELSE LET decoded == jwtVerify(token[1]) IN
         IF decoded = <<>> THEN Guard(FALSE, <<>>, Json(401, "Invalid token."))
         ELSE Guard(TRUE, decoded, NoRes)

\* authMiddleware(userType)(req, res, next); userType "" is "not specified"
authMiddleware(userType, authorization) ==
    LET token == BearerToken(authorization) IN
    IF token = <<>> THEN Guard(FALSE, <<>>, Json(401, "Access denied. No token provided."))
    ELSE LET decoded == jwtVerify(token[1]) IN
         IF decoded = <<>> THEN Guard(FALSE, <<>>, Json(401, "Invalid token."))
         ELSE IF userType # "" /\ decoded[1].userType # userType
              THEN Guard(FALSE, <<>>, Json(403, "Access denied. Insufficient permissions."))
              ELSE Guard(TRUE, decoded, NoRes)

\* router.<verb>(path, authMiddleware(role), handler): the role each route requires
RouteRole(handler) ==
    CASE handler \in {"searchDoctors", "searchMedicines"} -> <<"user">>
      [] handler \in {"addDoctor", "getDoctorsByHospital", "updateDoctor", "deleteDoctor"} -> <<"hospital">>
      [] handler \in {"addMedicine", "getMedicinesByPharmacy", "updateMedicine", "deleteMedicine"} -> <<"pharmacy">>
      [] OTHER -> <<>>

\* the statement a handler awaits first
FirstStep(handler) ==
    CASE handler \in {"registerUser", "hospitalRegister", "pharmacyRegister"} -> "registerSelect"
      [] handler \in {"loginUser", "hospitalLogin", "pharmacyLogin"} -> "loginSelect"
      [] handler \in {"searchDoctors", "searchMedicines"} -> "searchQuery"
      [] handler \in {"addDoctor", "addMedicine"} -> "insert"
      [] handler \in {"getDoctorsByHospital", "getMedicinesByPharmacy"} -> "list"
      [] handler \in {"updateDoctor", "updateMedicine"} -> "updateCheck"
      [] OTHER -> "delete"

\* A request arrives at a route: the guard (when the route has one) and the
\* handler up to its first await run in one turn.
Arrive(p, handler, authorization, input) ==
    /\ pc[p] = "idle"
    /\ LET role == RouteRole(handler)
           g == IF role = <<>> THEN Guard(TRUE, <<>>, NoRes)
                ELSE authMiddleware(role[1], authorization)
           r == [handler |-> handler, authorization |-> authorization, input |-> input,
                 user |-> g.user]
       IN /\ req' = [req EXCEPT ![p] = r]
          /\ res' = [res EXCEPT ![p] = g.res]
          /\ pc' = [pc EXCEPT ![p] = IF g.next THEN FirstStep(handler) ELSE "done"]
    /\ UNCHANGED <<now, tables, issued>>

\* The response has been delivered; the slot takes the next request.  A token
\* in the response replaces the one its client held for that account.
Reply(p) ==
    /\ pc[p] = "done"
    /\ issued' = IF res[p].token = <<>> THEN issued
                 ELSE LET t == res[p].token[1] IN
                      {u \in issued : ~(u.userType = t.userType /\ u.id = t.id)} \cup {t}
    /\ pc' = [pc EXCEPT ![p] = "idle"]
    /\ req' = [req EXCEPT ![p] = NoReq]
    /\ res' = [res EXCEPT ![p] = NoRes]
    /\ UNCHANGED <<now, tables>>

Tick ==
    /\ now < MaxTime
    /\ now' = now + 1
    /\ UNCHANGED <<tables, issued, pc, req, res>>

-----------------------------------------------------------------------------
(* Credential store: users, hospitals, pharmacies *)

RegisterHandlers == {"registerUser", "hospitalRegister", "pharmacyRegister"}
LoginHandlers == {"loginUser", "hospitalLogin", "pharmacyLogin"}

\* the role whose table a register/login handler works on
HandlerRole(handler) ==
    CASE handler \in {"registerUser", "loginUser"} -> "user"
      [] handler \in {"hospitalRegister", "hospitalLogin"} -> "hospital"
      [] OTHER -> "pharmacy"

TableName(role) ==
    CASE role = "user" -> "users" [] role = "hospital" -> "hospitals" [] OTHER -> "pharmacies"
IdCol(role) ==
    CASE role = "user" -> "user_id" [] role = "hospital" -> "hospital_id" [] OTHER -> "pharmacy_id"
NameCol(role) ==
    CASE role = "user" -> "full_name" [] role = "hospital" -> "hospital_name" [] OTHER -> "pharmacy_name"
Label(role) ==
    CASE role = "user" -> "User" [] role = "hospital" -> "Hospital" [] OTHER -> "Pharmacy"

Accounts(role) ==
    CASE role = "user" -> users [] role = "hospital" -> hospitals [] OTHER -> pharmacies

\* the three account tables after `role`'s table became `rows`
SetAccounts(role, rows) ==
    /\ users' = IF role = "user" THEN rows ELSE users
    /\ hospitals' = IF role = "hospital" THEN rows ELSE hospitals
    /\ pharmacies' = IF role = "pharmacy" THEN rows ELSE pharmacies

\* bcrypt.genSalt(10) draws a salt; bcrypt.hash(password, salt) is a one-way
\* function of both; bcrypt.compare hashes again with the salt of the stored hash.
Salts == {"salt1", "salt2"}
bcryptHash(password, salt) == [salt |-> salt, digest |-> <<salt, password>>]
bcryptCompare(password, hash) == bcryptHash(password, hash.salt) = hash

\* the schema (not in src/): email is UNIQUE in each of the three tables
UniqueEmailViolation(rows, email) == \E r \in rows : r.email = email
\* the schema (not in src/): is_active defaults to true
DefaultIsActive == TRUE

\* SELECT * FROM <table> WHERE email = $1
SelectByEmail(rows, email) == {r \in rows : r.email = email}

\* the row INSERT INTO <table> (...) VALUES (...) stores
AccountRow(role, id, body, password_hash) ==
    (IdCol(role) :> id) @@ (NameCol(role) :> body.name) @@
    [email |-> body.email, password_hash |-> password_hash, city |-> body.city,
     is_active |-> DefaultIsActive]

\* RETURNING <id>, <name>, email; also the subset login sends
SafeFields(role, row) ==
    (IdCol(role) :> row[IdCol(role)]) @@ (NameCol(role) :> row[NameCol(role)]) @@
    [email |-> row.email]

AlreadyExists(role) ==
    Json(400, CASE role = "user" -> "User already exists"
                [] role = "hospital" -> "Hospital already exists"
                [] OTHER -> "Pharmacy already exists")
Registered(role, row, token) ==
    JsonAuth(201, CASE role = "user" -> "User registered successfully"
                    [] role = "hospital" -> "Hospital registered successfully"
                    [] OTHER -> "Pharmacy registered successfully", row, token)
ServerError == Json(500, "Server error")
InvalidCredentials == Json(401, "Invalid credentials")
LoginSuccessful(row, token) == JsonAuth(200, "Login successful", row, token)

\* an existence check that looks for the email in all three tables
RegisterSelect_AnyRole(p, role) ==
    /\ pc[p] = "registerSelect"
    /\ req[p].handler \in RegisterHandlers /\ HandlerRole(req[p].handler) = role
    /\ LET exists == SelectByEmail(users \cup hospitals \cup pharmacies, req[p].input.email) IN
       IF exists # {}
       THEN /\ res' = [res EXCEPT ![p] = AlreadyExists(role)]
            /\ pc' = [pc EXCEPT ![p] = "done"]
       ELSE /\ res' = res
            /\ pc' = [pc EXCEPT ![p] = "registerInsert"]
    /\ UNCHANGED <<now, tables, issued, req>>

\* register, first statement: the existence check
RegisterSelect(p, role) ==
    /\ pc[p] = "registerSelect"
    /\ req[p].handler \in RegisterHandlers /\ HandlerRole(req[p].handler) = role
    /\ LET exists == SelectByEmail(Accounts(role), req[p].input.email) IN
       IF exists # {}
       THEN /\ res' = [res EXCEPT ![p] = AlreadyExists(role)]
            /\ pc' = [pc EXCEPT ![p] = "done"]
       ELSE /\ res' = res
            /\ pc' = [pc EXCEPT ![p] = "registerInsert"]
    /\ UNCHANGED <<now, tables, issued, req>>

\* register, second statement: hash, INSERT ... RETURNING, token; a failing
\* INSERT throws into the handler's catch (the id it drew from the sequence is
\* not given back)
RegisterInsert(p, role) ==
    /\ pc[p] = "registerInsert"
    /\ HandlerRole(req[p].handler) = role
    /\ \E salt \in Salts :
        LET body == req[p].input
            password_hash == bcryptHash(body.password, salt)
            id == serial[TableName(role)] + 1
            row == AccountRow(role, id, body, password_hash)
        IN IF UniqueEmailViolation(Accounts(role), body.email)
           THEN /\ res' = [res EXCEPT ![p] = ServerError]
                /\ UNCHANGED <<users, hospitals, pharmacies>>
           ELSE /\ SetAccounts(role, Accounts(role) \cup {row})
                /\ res' = [res EXCEPT ![p] =
                             Registered(role, SafeFields(role, row), generateToken(id, role))]
    /\ serial' = [serial EXCEPT ![TableName(role)] = serial[TableName(role)] + 1]
    /\ pc' = [pc EXCEPT ![p] = "done"]
    /\ UNCHANGED <<now, doctors, medicines, issued, req>>

registerUser(p) == RegisterSelect(p, "user") \/ RegisterInsert(p, "user")
hospitalRegister(p) == RegisterSelect(p, "hospital") \/ RegisterInsert(p, "hospital")
pharmacyRegister(p) == RegisterSelect(p, "pharmacy") \/ RegisterInsert(p, "pharmacy")

\* a login that tells an unknown email from a wrong password
Login_Leaky(p, role) ==
    /\ pc[p] = "loginSelect"
    /\ HandlerRole(req[p].handler) = role
    /\ LET result == SelectByEmail(Accounts(role), req[p].input.email) IN
       IF result = {}
       THEN res' = [res EXCEPT ![p] = Json(401, "User not found")]
       ELSE \E user \in result :
              IF ~bcryptCompare(req[p].input.password, user.password_hash)
              THEN res' = [res EXCEPT ![p] = InvalidCredentials]
              ELSE res' = [res EXCEPT ![p] =
                             LoginSuccessful(SafeFields(role, user),
                                             generateToken(user[IdCol(role)], role))]
    /\ pc' = [pc EXCEPT ![p] = "done"]
    /\ UNCHANGED <<now, tables, issued, req>>

\* login: one SELECT, then bcrypt.compare and the token, all local
Login(p, role) ==
    /\ pc[p] = "loginSelect"
    /\ HandlerRole(req[p].handler) = role
    /\ LET result == SelectByEmail(Accounts(role), req[p].input.email) IN
       IF result = {}
       THEN res' = [res EXCEPT ![p] = InvalidCredentials]
       ELSE \E user \in result :
              IF ~bcryptCompare(req[p].input.password, user.password_hash)
              THEN res' = [res EXCEPT ![p] = InvalidCredentials]
              ELSE res' = [res EXCEPT ![p] =
                             LoginSuccessful(SafeFields(role, user),
                                             generateToken(user[IdCol(role)], role))]
    /\ pc' = [pc EXCEPT ![p] = "done"]
    /\ UNCHANGED <<now, tables, issued, req>>

loginUser(p) == Login(p, "user")
hospitalLogin(p) == Login(p, "hospital")
pharmacyLogin(p) == Login(p, "pharmacy")

-----------------------------------------------------------------------------
(* Text: a string is a sequence of characters *)

Lower(c) == CASE c = "A" -> "a" [] c = "B" -> "b" [] c = "C" -> "c" [] OTHER -> c
LowerStr(s) == [i \in 1..Len(s) |-> Lower(s[i])]

\* the order ORDER BY puts on characters (byte order)
CharCode(c) ==
    CASE c = "%" -> 37 [] c = "A" -> 65 [] c = "B" -> 66 [] c = "C" -> 67 [] c = "_" -> 95
      [] c = "a" -> 97 [] c = "b" -> 98 [] c = "c" -> 99 [] OTHER -> 0

RECURSIVE StrLeq(_, _)
StrLeq(a, b) ==
    IF a = <<>> THEN TRUE
    ELSE IF b = <<>> THEN FALSE
    ELSE IF Head(a) # Head(b) THEN CharCode(Head(a)) < CharCode(Head(b))
    ELSE StrLeq(Tail(a), Tail(b))

\* text LIKE pattern: % matches any run of characters, _ any one character
RECURSIVE Like(_, _)
Like(text, pattern) ==
    IF pattern = <<>> THEN text = <<>>
    ELSE IF Head(pattern) = "%"
         THEN Like(text, Tail(pattern)) \/ (text # <<>> /\ Like(Tail(text), pattern))
    ELSE IF text = <<>> THEN FALSE
    ELSE IF Head(pattern) = "_" THEN Like(Tail(text), Tail(pattern))
    ELSE Head(pattern) = Head(text) /\ Like(Tail(text), Tail(pattern))

\* text ILIKE pattern
ILike(text, pattern) == Like(LowerStr(text), LowerStr(pattern))

\* the parameter `%${value}%`
Wrap(value) == <<"%">> \o value \o <<"%">>

\* ORDER BY col: every order of `rows` that ascends in col (ties in any order)
OrderBy(rows, col) ==
    LET n == Cardinality(rows) IN
    {s \in [1..n -> rows] :
        /\ \A i, j \in 1..n : i # j => s[i] # s[j]
        /\ \A i \in 1..n, j \in 1..n : i < j => StrLeq(s[i][col], s[j][col])}

\* `if (value)`: a query parameter that is present and not the empty string
Given(query, k) == k \in DOMAIN query /\ query[k] # <<>>

-----------------------------------------------------------------------------
(* Search (controllers/userController.js) *)

\* SELECT d.*, h.hospital_name, h.city ... JOIN hospitals h ON d.hospital_id = h.hospital_id
DoctorJoin == {d @@ [hospital_name |-> h.hospital_name, city |-> h.city, is_active |-> h.is_active] :
                  <<d, h>> \in {x \in doctors \X hospitals : x[1].hospital_id = x[2].hospital_id}}

MedicineJoin == {m @@ [pharmacy_name |-> h.pharmacy_name, city |-> h.city, is_active |-> h.is_active] :
                  <<m, h>> \in {x \in medicines \X pharmacies : x[1].pharmacy_id = x[2].pharmacy_id}}

\* a WHERE clause whose filters are joined with OR
DoctorWhere_AnyFilter(r, query) ==
    /\ r.is_available = TRUE /\ r.is_active = TRUE
    /\ \/ ~\E k \in {"specialization", "city", "hospital_name"} : Given(query, k)
       \/ Given(query, "specialization") /\ ILike(r.specialization, Wrap(query.specialization))
       \/ Given(query, "city") /\ ILike(r.city, Wrap(query.city))
       \/ Given(query, "hospital_name") /\ ILike(r.hospital_name, Wrap(query.hospital_name))

\* the WHERE clause searchDoctors builds
DoctorWhere(r, query) ==
    /\ r.is_available = TRUE /\ r.is_active = TRUE
    /\ Given(query, "specialization") => ILike(r.specialization, Wrap(query.specialization))
    /\ Given(query, "city") => ILike(r.city, Wrap(query.city))
    /\ Given(query, "hospital_name") => ILike(r.hospital_name, Wrap(query.hospital_name))

\* the WHERE clause searchMedicines builds
MedicineWhere(r, query) ==
    /\ r.is_available = TRUE /\ r.stock_quantity > 0 /\ r.is_active = TRUE
    /\ Given(query, "medicine_name") =>
          (ILike(r.medicine_name, Wrap(query.medicine_name))
             \/ ILike(r.generic_name, Wrap(query.medicine_name)))
    /\ Given(query, "city") => ILike(r.city, Wrap(query.city))
    /\ Given(query, "category") => ILike(r.category, Wrap(query.category))

\* the columns of the joined row that the response carries
DoctorOut(r) == [k \in DOMAIN r \ {"is_active"} |-> r[k]]
MedicineOut(r) == [k \in DOMAIN r \ {"is_active"} |-> r[k]]

DoctorRows(query) == {DoctorOut(r) : r \in {x \in DoctorJoin : DoctorWhere(x, query)}}
MedicineRows(query) == {MedicineOut(r) : r \in {x \in MedicineJoin : MedicineWhere(x, query)}}

searchDoctors(p) ==
    /\ pc[p] = "searchQuery" /\ req[p].handler = "searchDoctors"
    /\ \E data \in OrderBy(DoctorRows(req[p].input), "full_name") :
          res' = [res EXCEPT ![p] = JsonData(200, "", data)]
    /\ pc' = [pc EXCEPT ![p] = "done"]
    /\ UNCHANGED <<now, tables, issued, req>>

searchMedicines(p) ==
    /\ pc[p] = "searchQuery" /\ req[p].handler = "searchMedicines"
    /\ \E data \in OrderBy(MedicineRows(req[p].input), "medicine_name") :
          res' = [res EXCEPT ![p] = JsonData(200, "", data)]
    /\ pc' = [pc EXCEPT ![p] = "done"]
    /\ UNCHANGED <<now, tables, issued, req>>

-----------------------------------------------------------------------------
(* Owner-scoped CRUD (controllers/doctorController.js, medicineController.js). *)
(* The two controllers are the same code over two tables; `kind` selects one.  *)

Entity(kind) ==
    IF kind = "doctor"
    THEN [table |-> "doctors", id |-> "doctor_id", owner |-> "hospital_id",
          name |-> "full_name", label |-> "Doctor"]
    ELSE [table |-> "medicines", id |-> "medicine_id", owner |-> "pharmacy_id",
          name |-> "medicine_name", label |-> "Medicine"]

HandlerKind(handler) ==
    IF handler \in {"addDoctor", "getDoctorsByHospital", "updateDoctor", "deleteDoctor"}
    THEN "doctor" ELSE "medicine"

Rows(kind) == IF kind = "doctor" THEN doctors ELSE medicines
Owners(kind) == IF kind = "doctor" THEN hospitals ELSE pharmacies

SetRows(kind, rows) ==
    /\ doctors' = IF kind = "doctor" THEN rows ELSE doctors
    /\ medicines' = IF kind = "doctor" THEN medicines ELSE rows

\* the schema (not in src/): is_available defaults to true
DefaultIsAvailable == TRUE

\* the schema (not in src/): the owner column references the owner table's key
ForeignKeyViolation(kind, ownerId) ==
    ~\E o \in Owners(kind) : o[Entity(kind).owner] = ownerId

\* the schema (not in src/): the id column is the primary key
PrimaryKeyViolation(kind, rows) ==
    \E r1, r2 \in rows : r1 # r2 /\ r1[Entity(kind).id] = r2[Entity(kind).id]

\* the schema (not in src/): the columns of the two tables that the model carries
Columns(kind) ==
    IF kind = "doctor"
    THEN {"doctor_id", "hospital_id", "full_name", "specialization", "is_available"}
    ELSE {"medicine_id", "pharmacy_id", "medicine_name", "generic_name", "category",
          "stock_quantity", "is_available"}

\* the row INSERT INTO doctors/medicines (...) VALUES ($1, ...) stores: $1 is
\* req.user.id, the rest are the fields destructured from the body
NewRow(kind, id, ownerId, body) ==
    IF kind = "doctor"
    THEN [doctor_id |-> id, hospital_id |-> ownerId, full_name |-> body.full_name,
          specialization |-> body.specialization, is_available |-> DefaultIsAvailable]
    ELSE [medicine_id |-> id, pharmacy_id |-> ownerId, medicine_name |-> body.medicine_name,
          generic_name |-> body.generic_name, category |-> body.category,
          stock_quantity |-> body.stock_quantity, is_available |-> DefaultIsAvailable]

Added(kind, row) ==
    JsonData(201, IF kind = "doctor" THEN "Doctor added successfully"
                  ELSE "Medicine added successfully", <<row>>)
NotFound(kind) ==
    Json(404, IF kind = "doctor" THEN "Doctor not found" ELSE "Medicine not found")
\* data: result.rows[0], which is undefined (no data) when the statement returned no row
Updated(kind, rows) ==
    JsonData(200, IF kind = "doctor" THEN "Doctor updated successfully"
                  ELSE "Medicine updated successfully",
             IF rows = {} THEN <<>> ELSE <<CHOOSE r \in rows : TRUE>>)
Deleted(kind) ==
    Json(200, IF kind = "doctor" THEN "Doctor deleted successfully"
              ELSE "Medicine deleted successfully")

\* a WHERE clause that forgets the owner
Match_IdOnly(kind, id, ownerId) ==
    {r \in Rows(kind) : r[Entity(kind).id] = id}

\* WHERE <id> = $1 AND <owner> = $2
Match(kind, id, ownerId) ==
    {r \in Rows(kind) : r[Entity(kind).id] = id /\ r[Entity(kind).owner] = ownerId}

\* an add that takes the owner from the body when the body names one
Insert_BodyOwner(p, kind) ==
    /\ pc[p] = "insert" /\ HandlerKind(req[p].handler) = kind
    /\ LET body == req[p].input.body
           ownerId == IF Entity(kind).owner \in DOMAIN body THEN body[Entity(kind).owner]
                      ELSE req[p].user[1].id
           id == serial[Entity(kind).table] + 1
           row == NewRow(kind, id, ownerId, req[p].input.body)
       IN IF ForeignKeyViolation(kind, ownerId) \/ PrimaryKeyViolation(kind, Rows(kind) \cup {row})
          THEN /\ res' = [res EXCEPT ![p] = ServerError]
               /\ UNCHANGED <<doctors, medicines>>
          ELSE /\ SetRows(kind, Rows(kind) \cup {row})
               /\ res' = [res EXCEPT ![p] = Added(kind, row)]
    /\ serial' = [serial EXCEPT ![Entity(kind).table] = serial[Entity(kind).table] + 1]
    /\ pc' = [pc EXCEPT ![p] = "done"]
    /\ UNCHANGED <<now, users, hospitals, pharmacies, issued, req>>

\* addDoctor / addMedicine: one INSERT ... RETURNING *; a failing INSERT throws
\* into the handler's catch
Insert(p, kind) ==
    /\ pc[p] = "insert" /\ HandlerKind(req[p].handler) = kind
    /\ LET ownerId == req[p].user[1].id
           id == serial[Entity(kind).table] + 1
           row == NewRow(kind, id, ownerId, req[p].input.body)
       IN IF ForeignKeyViolation(kind, ownerId) \/ PrimaryKeyViolation(kind, Rows(kind) \cup {row})
          THEN /\ res' = [res EXCEPT ![p] = ServerError]
               /\ UNCHANGED <<doctors, medicines>>
          ELSE /\ SetRows(kind, Rows(kind) \cup {row})
               /\ res' = [res EXCEPT ![p] = Added(kind, row)]
    /\ serial' = [serial EXCEPT ![Entity(kind).table] = serial[Entity(kind).table] + 1]
    /\ pc' = [pc EXCEPT ![p] = "done"]
    /\ UNCHANGED <<now, users, hospitals, pharmacies, issued, req>>

\* getDoctorsByHospital / getMedicinesByPharmacy
ListByOwner(p, kind) ==
    /\ pc[p] = "list" /\ HandlerKind(req[p].handler) = kind
    /\ LET ownerId == req[p].user[1].id
           rows == {r \in Rows(kind) : r[Entity(kind).owner] = ownerId}
       IN \E data \in OrderBy(rows, Entity(kind).name) :
             res' = [res EXCEPT ![p] = JsonData(200, "", data)]
    /\ pc' = [pc EXCEPT ![p] = "done"]
    /\ UNCHANGED <<now, tables, issued, req>>

\* updateDoctor / updateMedicine, first statement: the ownership check
UpdateCheck(p, kind) ==
    /\ pc[p] = "updateCheck" /\ HandlerKind(req[p].handler) = kind
    /\ LET check == Match(kind, req[p].input.id, req[p].user[1].id) IN
       IF check = {}
       THEN /\ res' = [res EXCEPT ![p] = NotFound(kind)]
            /\ pc' = [pc EXCEPT ![p] = "done"]
       ELSE /\ res' = res
            /\ pc' = [pc EXCEPT ![p] = "updateExec"]
    /\ UNCHANGED <<now, tables, issued, req>>

\* SET field1 = $1, ...: the row with every field of `updates` overwritten
Patch(row, updates) ==
    [k \in DOMAIN row |-> IF k \in DOMAIN updates THEN updates[k] ELSE row[k]]

\* the statement UPDATE ... SET ${setClause} WHERE ... is rejected by the
\* database: empty SET list, a name that is no column, or a broken key
UpdateRejected(kind, updates, rest, patched) ==
    \/ DOMAIN updates = {}
    \/ \E k \in DOMAIN updates : k \notin Columns(kind)
    \/ PrimaryKeyViolation(kind, rest \cup patched)
    \/ \E r \in patched : ForeignKeyViolation(kind, r[Entity(kind).owner])

\* updateDoctor / updateMedicine, second statement: UPDATE ... RETURNING *
UpdateExec(p, kind) ==
    /\ pc[p] = "updateExec" /\ HandlerKind(req[p].handler) = kind
    /\ LET updates == req[p].input.body
           target == Match(kind, req[p].input.id, req[p].user[1].id)
           patched == {Patch(r, updates) : r \in target}
           rest == Rows(kind) \ target
       IN IF UpdateRejected(kind, updates, rest, patched)
          THEN /\ res' = [res EXCEPT ![p] = ServerError]
               /\ UNCHANGED <<doctors, medicines>>
          ELSE /\ SetRows(kind, rest \cup patched)
               /\ res' = [res EXCEPT ![p] = Updated(kind, patched)]
    /\ pc' = [pc EXCEPT ![p] = "done"]
    /\ UNCHANGED <<now, users, hospitals, pharmacies, serial, issued, req>>

\* deleteDoctor / deleteMedicine: DELETE ... RETURNING *
Delete(p, kind) ==
    /\ pc[p] = "delete" /\ HandlerKind(req[p].handler) = kind
    /\ LET result == Match(kind, req[p].input.id, req[p].user[1].id) IN
       /\ SetRows(kind, Rows(kind) \ result)
       /\ res' = [res EXCEPT ![p] = IF result = {} THEN NotFound(kind) ELSE Deleted(kind)]
    /\ pc' = [pc EXCEPT ![p] = "done"]
    /\ UNCHANGED <<now, users, hospitals, pharmacies, serial, issued, req>>

addDoctor(p) == Insert(p, "doctor")
getDoctorsByHospital(p) == ListByOwner(p, "doctor")
updateDoctor(p) == UpdateCheck(p, "doctor") \/ UpdateExec(p, "doctor")
deleteDoctor(p) == Delete(p, "doctor")
addMedicine(p) == Insert(p, "medicine")
getMedicinesByPharmacy(p) == ListByOwner(p, "medicine")
updateMedicine(p) == UpdateCheck(p, "medicine") \/ UpdateExec(p, "medicine")
deleteMedicine(p) == Delete(p, "medicine")

-----------------------------------------------------------------------------
(* What the clients send *)

\* the Authorization headers a client can send: none, a token it holds, a token
\* it holds with the payload altered (the signature no longer matches), or a
\* token signed with a key of its own
Forge(t, userType, exp) == [t EXCEPT !.userType = userType, !.exp = exp, !.sig = "other key"]
Presentable ==
    issued \cup {Forge(t, r, e) : t \in issued, r \in Roles, e \in {JWT_EXPIRE, MaxTime + JWT_EXPIRE}}
Headers == {<<>>} \cup {<<"Bearer", t>> : t \in Presentable}

TypeOK ==
    /\ now \in 0..MaxTime
    /\ pc \in [Procs -> {"idle", "registerSelect", "registerInsert", "loginSelect", "searchQuery",
                         "insert", "list", "updateCheck", "updateExec", "delete", "done"}]
    /\ \A p \in Procs : res[p].status \in {0, 200, 201, 400, 401, 403, 404, 500}
    /\ \A p \in Procs : pc[p] = "idle" <=> req[p] = NoReq

-----------------------------------------------------------------------------
(* SpecAuth: register, login and guarded requests while the clock runs, one *)
(* request at a time.                                                        *)

AuthBodies == {[name |-> <<"A">>, email |-> "a@x.com", password |-> "p1", city |-> <<"a">>]}
AuthLogins == {[email |-> "a@x.com", password |-> "p1"], [email |-> "a@x.com", password |-> "p2"],
               [email |-> "b@x.com", password |-> "p1"]}
NoQuery == <<>>

InitAuth ==
    /\ now = 0
    /\ users = {} /\ hospitals = {} /\ pharmacies = {} /\ doctors = {} /\ medicines = {}
    /\ serial = [t \in {"users", "hospitals", "pharmacies", "doctors", "medicines"} |-> 0]
    /\ issued = {}
    /\ pc = [p \in Procs |-> "idle"]
    /\ req = [p \in Procs |-> NoReq]
    /\ res = [p \in Procs |-> NoRes]

NextAuth ==
    \/ \E h \in RegisterHandlers, b \in AuthBodies : Arrive(1, h, <<>>, b)
    \/ \E h \in LoginHandlers, b \in AuthLogins : Arrive(1, h, <<>>, b)
    \/ \E h \in {"searchDoctors", "getDoctorsByHospital", "getMedicinesByPharmacy"},
          a \in Headers : Arrive(1, h, a, NoQuery)
    \/ registerUser(1) \/ hospitalRegister(1) \/ pharmacyRegister(1)
    \/ loginUser(1) \/ hospitalLogin(1) \/ pharmacyLogin(1)
    \/ searchDoctors(1) \/ getDoctorsByHospital(1) \/ getMedicinesByPharmacy(1)
    \/ Reply(1)
    \/ Tick

SpecAuth == InitAuth /\ [][NextAuth]_vars

\* slot p takes a request in this step
Arrives(p) == pc[p] = "idle" /\ pc'[p] # "idle"
\* the guard let the request of slot p through to its handler
Admitted(p) == pc'[p] = FirstStep(req'[p].handler) /\ res'[p] = NoRes

(* C1: a token issued by register or login of role X carries role X and the id
   of the account; presented unexpired at a guard requiring Y # X the answer
   is 403 and the handler does not start; at a guard requiring X the handler
   starts with req.user holding the token's id and role. *)
RoleGuard ==
    [][\A p \in Procs :
        /\ res'[p].token # <<>> =>
              \A X \in Roles : X = HandlerRole(req'[p].handler) =>
                 LET t == res'[p].token[1] IN
                 /\ t.userType = X /\ t.sig = JWT_SECRET
                 /\ \E r \in Accounts(X)' : r[IdCol(X)] = t.id /\ r.email = req'[p].input.email
        /\ (Arrives(p) /\ RouteRole(req'[p].handler) # <<>> /\ Len(req'[p].authorization) = 2) =>
              LET t == req'[p].authorization[2]
                  Y == RouteRole(req'[p].handler)[1]
              IN (t \in issued /\ now < t.exp) =>
                   IF t.userType # Y
                   THEN /\ res'[p].status = 403 /\ pc'[p] = "done"
                        /\ req'[p].user = <<>> /\ tables' = tables
                   ELSE /\ Admitted(p)
                        /\ req'[p].user # <<>>
                        /\ req'[p].user[1].id = t.id /\ req'[p].user[1].userType = t.userType
      ]_vars

\* a hospital's token, unexpired, has been refused with 403 by the guard of a user route
RoleGuardWitness ==
    \E p \in Procs :
        /\ pc[p] = "done" /\ res[p].status = 403 /\ req[p].handler = "searchDoctors"
        /\ req[p].authorization[2] \in issued
        /\ req[p].authorization[2].userType = "hospital"
        /\ now < req[p].authorization[2].exp

(* C2: the guard admits a request only while now <= the token's exp; once
   now > exp every request carrying the token is answered 401, whatever its
   signature and whatever role the route requires: never 403, never the handler. *)
ExpiryGuard ==
    [][\A p \in Procs :
        (Arrives(p) /\ RouteRole(req'[p].handler) # <<>> /\ Len(req'[p].authorization) = 2) =>
            LET t == req'[p].authorization[2] IN
            /\ Admitted(p) => now <= t.exp
            /\ now > t.exp => /\ res'[p].status = 401 /\ pc'[p] = "done"
                              /\ req'[p].user = <<>> /\ tables' = tables
      ]_vars

\* a correctly signed pharmacy token, expired, was answered 401 on a hospital route
ExpiryGuardWitness ==
    \E p \in Procs :
        /\ pc[p] = "done" /\ res[p].status = 401 /\ req[p].handler = "getDoctorsByHospital"
        /\ Len(req[p].authorization) = 2
        /\ req[p].authorization[2].sig = JWT_SECRET
        /\ req[p].authorization[2].userType = "pharmacy"
        /\ now > req[p].authorization[2].exp

-----------------------------------------------------------------------------
(* SpecReg: concurrent register requests of the three roles *)

RegBodies == {[name |-> <<"A">>, email |-> "a@x.com", password |-> "p1", city |-> <<"a">>]}
NextReg ==
    \E p \in Procs :
        \/ \E h \in RegisterHandlers, b \in RegBodies : Arrive(p, h, <<>>, b)
        \/ registerUser(p) \/ hospitalRegister(p) \/ pharmacyRegister(p)
        \/ Reply(p)

SpecReg == InitAuth /\ [][NextReg]_vars

\* slot p executes the statement it stands at
Runs(p, step) == pc[p] = step /\ pc'[p] # step

EmailIn(rows, email) == \E r \in rows : r.email = email

(* C4: a register of role R whose existence check finds the email in R's table
   answers 400 and adds no record; one that finds it absent from R's table is
   not refused, whatever the other two tables hold, and its INSERT, the email
   still being absent from R's table, answers 201 and adds exactly one record. *)
RegisterConflict ==
    [][\A p \in Procs, R \in Roles :
        (req[p].handler \in RegisterHandlers /\ HandlerRole(req[p].handler) = R) =>
          LET present == EmailIn(Accounts(R), req[p].input.email) IN
          /\ (Runs(p, "registerSelect") /\ present) =>
                /\ res'[p].status = 400 /\ res'[p].token = <<>> /\ pc'[p] = "done"
                /\ tables' = tables
          /\ (Runs(p, "registerSelect") /\ ~present) =>
                /\ pc'[p] = "registerInsert" /\ res'[p] = NoRes
          /\ (Runs(p, "registerInsert") /\ ~present) =>
                /\ res'[p].status = 201 /\ pc'[p] = "done"
                /\ \E row \in Accounts(R)' :
                      /\ row \notin Accounts(R) /\ row.email = req[p].input.email
                      /\ Accounts(R)' = Accounts(R) \cup {row}
                /\ \A Q \in Roles \ {R} : Accounts(Q)' = Accounts(Q)
      ]_vars

\* one register answered 201 for an email both other tables hold, another 400
RegisterConflictWitness ==
    \E p, q \in Procs :
        /\ pc[p] = "done" /\ req[p].handler = "registerUser" /\ res[p].status = 201
        /\ EmailIn(hospitals, req[p].input.email) /\ EmailIn(pharmacies, req[p].input.email)
        /\ pc[q] = "done" /\ req[q].handler = "registerUser" /\ res[q].status = 400
        /\ req[q].input.email = req[p].input.email

(* C5: no table holds two records with the same email, and of the registers of
   one role with one email at most one answers success while every other one
   answers Conflict (400). *)
RegisterRace ==
    /\ \A R \in Roles : \A r1, r2 \in Accounts(R) : r1.email = r2.email => r1 = r2
    /\ \A p, q \in Procs :
          (/\ p # q /\ pc[p] = "done" /\ pc[q] = "done"
           /\ req[p].handler \in RegisterHandlers /\ req[q].handler = req[p].handler
           /\ req[p].input.email = req[q].input.email)
          => ~(res[p].status = 201 /\ res[q].status = 201)
    /\ \A p \in Procs :
          (pc[p] = "done" /\ req[p].handler \in RegisterHandlers) => res[p].status \in {201, 400}

(* C6: a login of role R answers 200 with a token for R and the matching record
   exactly when R's table holds a record with the email whose hash verifies the
   password; every other login, for an unknown email as for a wrong password,
   answers the one response 401 "Invalid credentials" without token or data. *)
LoginUniform ==
    [][\A p \in Procs, R \in Roles :
        (Runs(p, "loginSelect") /\ HandlerRole(req[p].handler) = R) =>
          LET verified == {r \in Accounts(R) : /\ r.email = req[p].input.email
                                               /\ bcryptCompare(req[p].input.password, r.password_hash)}
          IN IF verified # {}
             THEN /\ res'[p].status = 200 /\ res'[p].token # <<>>
                  /\ res'[p].token[1].userType = R
                  /\ \E r \in verified : /\ res'[p].token[1].id = r[IdCol(R)]
                                         /\ res'[p].data = <<SafeFields(R, r)>>
             ELSE res'[p] = [status |-> 401, message |-> "Invalid credentials",
                             data |-> <<>>, token |-> <<>>]
      ]_vars

\* a login with a registered email and a wrong password has been refused
LoginUniformWitness ==
    \E p \in Procs :
        /\ pc[p] = "done" /\ req[p].handler = "pharmacyLogin" /\ res[p].status = 401
        /\ EmailIn(pharmacies, req[p].input.email)
        /\ \A r \in pharmacies : ~bcryptCompare(req[p].input.password, r.password_hash)

-----------------------------------------------------------------------------
(* SpecSearch: the two searches over a populated store, one request at a     *)
(* time.  The store starts as register and add requests leave it (every      *)
(* is_available true); is_active is written by no handler, so the second     *)
(* owner starts active or not.  Updates then clear is_available and stock.   *)

Account(role, id, name, email, city, active) ==
    [AccountRow(role, id, [name |-> name, email |-> email, city |-> city],
                bcryptHash("p1", "salt1")) EXCEPT !.is_active = active]

DoctorBodies ==
    {[full_name |-> <<"a">>, specialization |-> <<"C", "a">>],
     [full_name |-> <<"B">>, specialization |-> <<"b">>]}
MedicineBodies ==
    {[medicine_name |-> <<"a">>, generic_name |-> <<"B", "c">>, category |-> <<"C">>,
      stock_quantity |-> 5],
     [medicine_name |-> <<"a", "b">>, generic_name |-> <<"a">>, category |-> <<"b">>,
      stock_quantity |-> 5]}
Bodies(kind) == IF kind = "doctor" THEN DoctorBodies ELSE MedicineBodies

\* the tables that n add requests of the two owners leave
Stored(kind, n) ==
    {{NewRow(kind, i, f[i][1], f[i][2]) : i \in 1..n} : f \in [1..n -> {1, 2} \X Bodies(kind)]}

DoctorQueries ==
    {[k \in D |-> q[k]] :
        D \in SUBSET {"specialization", "city", "hospital_name"},
        q \in [specialization : {<<"c">>, <<"_">>}, city : {<<"a">>},
               hospital_name : {<<>>, <<"B">>}]}
MedicineQueries ==
    {[k \in D |-> q[k]] :
        D \in SUBSET {"medicine_name", "city", "category"},
        q \in [medicine_name : {<<"c">>, <<"b">>, <<"_">>}, city : {<<"a">>},
               category : {<<"c">>}]}

TokenAt0(id, userType) ==
    [id |-> id, userType |-> userType, iat |-> 0, exp |-> JWT_EXPIRE, sig |-> JWT_SECRET]

InitSearch ==
    /\ now = 0
    /\ users = {Account("user", 1, <<"A">>, "a@x.com", <<"a">>, TRUE)}
    /\ \E active \in BOOLEAN :
         /\ hospitals = {Account("hospital", 1, <<"A", "b">>, "a@x.com", <<"A">>, TRUE),
                         Account("hospital", 2, <<"c">>, "b@x.com", <<"b">>, active)}
         /\ pharmacies = {Account("pharmacy", 1, <<"A", "b">>, "a@x.com", <<"A">>, TRUE),
                          Account("pharmacy", 2, <<"c">>, "b@x.com", <<"b">>, active)}
    /\ \E n \in 0..MaxFound :
         \/ /\ doctors \in Stored("doctor", n) /\ medicines = {}
            /\ serial = [users |-> 1, hospitals |-> 2, pharmacies |-> 2, doctors |-> n, medicines |-> 0]
         \/ /\ medicines \in Stored("medicine", n) /\ doctors = {}
            /\ serial = [users |-> 1, hospitals |-> 2, pharmacies |-> 2, doctors |-> 0, medicines |-> n]
    /\ issued = {TokenAt0(1, "user")} \cup {TokenAt0(i, r) : i \in {1, 2}, r \in {"hospital", "pharmacy"}}
    /\ pc = [p \in Procs |-> "idle"]
    /\ req = [p \in Procs |-> NoReq]
    /\ res = [p \in Procs |-> NoRes]

\* the header of a client that sends the token it holds for the route's role
Bearer(handler) == {<<"Bearer", t>> : t \in {u \in issued : <<u.userType>> = RouteRole(handler)}}

NextSearch ==
    \/ \E a \in Bearer("searchDoctors"), q \in DoctorQueries : Arrive(1, "searchDoctors", a, q)
    \/ \E a \in Bearer("searchMedicines"), q \in MedicineQueries : Arrive(1, "searchMedicines", a, q)
    \/ \E a \in Bearer("updateDoctor"), i \in 1..MaxFound :
          Arrive(1, "updateDoctor", a, [id |-> i, body |-> [is_available |-> FALSE]])
    \/ \E a \in Bearer("updateMedicine"), i \in 1..MaxFound,
          b \in {[is_available |-> FALSE], [stock_quantity |-> 0]} :
          Arrive(1, "updateMedicine", a, [id |-> i, body |-> b])
    \/ searchDoctors(1) \/ searchMedicines(1)
    \/ updateDoctor(1) \/ updateMedicine(1)
    \/ Reply(1)

SpecSearch == InitSearch /\ [][NextSearch]_vars

Range(seq) == {seq[i] : i \in 1..Len(seq)}

\* sub occurs in text, letter case ignored
Contains(text, sub) ==
    \E i \in 0..(Len(text) - Len(sub)) :
        \A j \in 1..Len(sub) : Lower(text[i + j]) = Lower(sub[j])

\* a filter that is present in the query is a substring of the column
Filter(query, k, text) == k \in DOMAIN query => Contains(text, query[k])

Ascending(data, col) ==
    \A i, j \in 1..Len(data) : i < j => StrLeq(data[i][col], data[j][col])

\* data lists exactly the rows of `expected`, each once, in ascending order of col
Lists(data, expected, idcol, col) ==
    /\ Len(data) = Cardinality(expected)
    /\ \A r \in expected : \E i \in 1..Len(data) :
          data[i][idcol] = r[idcol] /\ \A c \in DOMAIN r : data[i][c] = r[c]
    /\ Ascending(data, col)

DoctorsExpected(query) ==
    {d \in doctors :
        /\ d.is_available
        /\ \E h \in hospitals :
              /\ h.hospital_id = d.hospital_id /\ h.is_active
              /\ Filter(query, "city", h.city)
              /\ Filter(query, "hospital_name", h.hospital_name)
        /\ Filter(query, "specialization", d.specialization)}

MedicinesExpected(query) ==
    {m \in medicines :
        /\ m.is_available /\ m.stock_quantity > 0
        /\ \E h \in pharmacies :
              /\ h.pharmacy_id = m.pharmacy_id /\ h.is_active
              /\ Filter(query, "city", h.city)
        /\ "medicine_name" \in DOMAIN query =>
              (Contains(m.medicine_name, query.medicine_name)
                 \/ Contains(m.generic_name, query.medicine_name))
        /\ Filter(query, "category", m.category)}

(* C7: searchDoctors answers success with exactly the available doctors of
   active hospitals of which every present filter is a case-insensitive
   substring (of specialization, hospital city, hospital name), in ascending
   order of full_name. *)
SearchDoctorsExact ==
    [][\A p \in Procs :
        (Runs(p, "searchQuery") /\ req[p].handler = "searchDoctors") =>
            /\ res'[p].status = 200 /\ pc'[p] = "done"
            /\ Lists(res'[p].data, DoctorsExpected(req[p].input), "doctor_id", "full_name")
      ]_vars

(* C8: searchMedicines answers success with exactly the available medicines in
   stock (stock_quantity > 0) of active pharmacies such that medicineName, when
   present, is a case-insensitive substring of the name or of the generic name
   and every other present filter is one of its column, in ascending order of
   medicine_name. *)
SearchMedicinesExact ==
    [][\A p \in Procs :
        (Runs(p, "searchQuery") /\ req[p].handler = "searchMedicines") =>
            /\ res'[p].status = 200 /\ pc'[p] = "done"
            /\ Lists(res'[p].data, MedicinesExpected(req[p].input), "medicine_id", "medicine_name")
      ]_vars

\* a filter value without the LIKE metacharacters
Plain(query) == \A k \in DOMAIN query : \A i \in 1..Len(query[k]) : query[k][i] \notin {"%", "_"}

\* what remains of C7 and C8 for filter values without % and _
SearchExactPlain ==
    [][\A p \in Procs :
        (Runs(p, "searchQuery") /\ Plain(req[p].input)) =>
            /\ res'[p].status = 200 /\ pc'[p] = "done"
            /\ IF req[p].handler = "searchDoctors"
               THEN Lists(res'[p].data, DoctorsExpected(req[p].input), "doctor_id", "full_name")
               ELSE Lists(res'[p].data, MedicinesExpected(req[p].input), "medicine_id", "medicine_name")
      ]_vars

\* the query without its filter k
Without(query, k) == [j \in DOMAIN query \ {k} |-> query[j]]

\* the rows a search handler selects for a query
RowsFor(handler, query) ==
    IF handler = "searchDoctors" THEN DoctorRows(query) ELSE MedicineRows(query)

Eligible(handler) ==
    IF handler = "searchDoctors"
    THEN {d \in doctors : d.is_available
             /\ \E h \in hospitals : h.hospital_id = d.hospital_id /\ h.is_active}
    ELSE {m \in medicines : m.is_available /\ m.stock_quantity > 0
             /\ \E h \in pharmacies : h.pharmacy_id = m.pharmacy_id /\ h.is_active}

(* C9 as amended: on one store, a search without filters returns all eligible
   rows, and the result of a search is a subset, not necessarily a strict one,
   of the result of the same search with any one of its filters left out. *)
SearchNarrows ==
    [][\A p \in Procs :
        Runs(p, "searchQuery") =>
            LET h == req[p].handler
                q == req[p].input
                idcol == IF h = "searchDoctors" THEN "doctor_id" ELSE "medicine_id"
            IN /\ DOMAIN q = {} =>
                     {r[idcol] : r \in Range(res'[p].data)} = {r[idcol] : r \in Eligible(h)}
               /\ \A k \in DOMAIN q : Range(res'[p].data) \subseteq RowsFor(h, Without(q, k))
      ]_vars

(* C9 as claimed: every additional filter strictly narrows the result. *)
SearchNarrowsStrictly ==
    [][\A p \in Procs :
        Runs(p, "searchQuery") =>
            \A k \in DOMAIN req[p].input :
                /\ Range(res'[p].data) \subseteq RowsFor(req[p].handler, Without(req[p].input, k))
                /\ Range(res'[p].data) # RowsFor(req[p].handler, Without(req[p].input, k))
      ]_vars

\* a search with two filters returned some, but not all, of the rows that the
\* search with the first filter alone selects
SearchNarrowsWitness ==
    \E p \in Procs :
        /\ pc[p] = "done" /\ req[p].handler = "searchDoctors" /\ res[p].status = 200
        /\ DOMAIN req[p].input = {"specialization", "city"}
        /\ res[p].data # <<>>
        /\ Cardinality(Range(res[p].data)) < Cardinality(DoctorRows(Without(req[p].input, "city")))

-----------------------------------------------------------------------------
(* SpecCrud: add, update and delete requests of two hospitals on doctors, or   *)
(* of two pharmacies on medicines, two requests in flight at a time (the       *)
(* races of update and delete are between two requests).  The owners are       *)
(* registered and logged in; the tables start empty.                           *)

Pair == {1, 2}

InitCrud ==
    /\ now = 0
    /\ users = {}
    /\ hospitals = {Account("hospital", 1, <<"A", "b">>, "a@x.com", <<"A">>, TRUE),
                    Account("hospital", 2, <<"c">>, "b@x.com", <<"b">>, TRUE)}
    /\ pharmacies = {Account("pharmacy", 1, <<"A", "b">>, "a@x.com", <<"A">>, TRUE),
                     Account("pharmacy", 2, <<"c">>, "b@x.com", <<"b">>, TRUE)}
    /\ doctors = {} /\ medicines = {}
    /\ serial = [users |-> 0, hospitals |-> 2, pharmacies |-> 2, doctors |-> 0, medicines |-> 0]
    /\ \E r \in {"hospital", "pharmacy"} : issued = {TokenAt0(i, r) : i \in {1, 2}}
    /\ pc = [p \in Procs |-> "idle"]
    /\ req = [p \in Procs |-> NoReq]
    /\ res = [p \in Procs |-> NoRes]

CrudBody(kind) == CHOOSE b \in Bodies(kind) : b[Entity(kind).name] = <<"a">>

\* the request bodies of PUT: clear is_available, or name an owner
Patches(kind) == {[is_available |-> FALSE], (Entity(kind).owner :> 1)}

NextCrud ==
    \E p \in Pair :
        \/ \E h \in {"addDoctor", "addMedicine"} : \E a \in Bearer(h) :
              /\ serial[Entity(HandlerKind(h)).table] < MaxRows
              /\ Arrive(p, h, a, [body |-> CrudBody(HandlerKind(h))])
        \/ \E h \in {"updateDoctor", "updateMedicine"} :
              \E a \in Bearer(h), i \in 1..MaxRows, b \in Patches(HandlerKind(h)) :
                 Arrive(p, h, a, [id |-> i, body |-> b])
        \/ \E h \in {"deleteDoctor", "deleteMedicine"} : \E a \in Bearer(h), i \in 1..MaxRows :
              Arrive(p, h, a, [id |-> i])
        \/ addDoctor(p) \/ updateDoctor(p) \/ deleteDoctor(p)
        \/ addMedicine(p) \/ updateMedicine(p) \/ deleteMedicine(p)
        \/ Reply(p)

SpecCrud == InitCrud /\ [][NextCrud]_vars

NotFoundResponse(kind) ==
    [status |-> 404, message |-> IF kind = "doctor" THEN "Doctor not found" ELSE "Medicine not found",
     data |-> <<>>, token |-> <<>>]

\* the rows of the table with the id the request of slot p names
Named(p, kind) == {r \in Rows(kind) : r[Entity(kind).id] = req[p].input.id}

(* C3: an update (at its ownership check) or a delete authenticated as A on an
   id whose row exists and is owned by B # A answers 404 and leaves the table
   as it is; an id that no row has gets the very same response; and no
   statement of an update of A changes a row that B owns. *)
OwnerScoped ==
    [][\A p \in Procs, kind \in {"doctor", "medicine"} :
        HandlerKind(req[p].handler) = kind =>
          /\ (/\ Runs(p, "updateExec")
              /\ \E r \in Named(p, kind) : r[Entity(kind).owner] # req[p].user[1].id)
             => Rows(kind)' = Rows(kind)
          /\ (/\ Runs(p, "updateCheck") \/ Runs(p, "delete")
              /\ \E r \in Named(p, kind) : r[Entity(kind).owner] # req[p].user[1].id)
             => (/\ res'[p] = NotFoundResponse(kind) /\ pc'[p] = "done"
                 /\ Rows(kind)' = Rows(kind)
                 /\ Named(p, kind) # {})
          /\ (/\ Runs(p, "updateCheck") \/ Runs(p, "delete")
              /\ Named(p, kind) = {})
             => (/\ res'[p] = NotFoundResponse(kind) /\ pc'[p] = "done"
                 /\ Rows(kind)' = Rows(kind))
      ]_vars

\* hospital 1 has been answered 404 for deleting a doctor that exists and that
\* hospital 2 owns; the row is still in the table, as it was added
OwnerScopedWitness ==
    \E p \in Procs :
        /\ pc[p] = "done" /\ req[p].handler = "deleteDoctor" /\ res[p].status = 404
        /\ req[p].user[1].id = 1
        /\ \E r \in doctors : r.doctor_id = req[p].input.id /\ r.hospital_id = 2
                              /\ r.is_available = TRUE

(* C10: update answers 404 when no row matches (id, owner), and every success
   response of update carries the updated row, also when a delete of the same
   row runs between the check and the UPDATE statement. *)
UpdateReturnsRow ==
    [][\A p \in Procs, kind \in {"doctor", "medicine"} :
        HandlerKind(req[p].handler) = kind =>
          /\ (Runs(p, "updateCheck") /\ Match(kind, req[p].input.id, req[p].user[1].id) = {}) =>
                res'[p] = NotFoundResponse(kind)
          /\ (Runs(p, "updateExec") /\ res'[p].status = 200) =>
                /\ res'[p].data # <<>>
                /\ res'[p].data[1] \in Rows(kind)'
      ]_vars

-----------------------------------------------------------------------------
(* SpecOwn: add, list, update and delete requests of two hospitals on        *)
(* doctors, or of two pharmacies on medicines, one request at a time.  The   *)
(* body of an add may name an owner, and the body of an update may name any  *)
(* column: is_available, the owner key or the row id.                        *)

MaxOwned == 2

\* the request bodies of POST: the fields alone, or with an owner key as well
OwnBodies(kind) == {CrudBody(kind), CrudBody(kind) @@ (Entity(kind).owner :> 2)}

\* the request bodies of PUT
OwnPatches(kind) ==
    {[is_available |-> FALSE], (Entity(kind).owner :> 1)}
        \cup {(Entity(kind).id :> i) : i \in {1, MaxOwned}}

NextOwn ==
    \/ \E h \in {"addDoctor", "addMedicine"} :
          \E a \in Bearer(h), b \in OwnBodies(HandlerKind(h)) :
             /\ serial[Entity(HandlerKind(h)).table] < MaxOwned
             /\ Arrive(1, h, a, [body |-> b])
    \/ \E h \in {"getDoctorsByHospital", "getMedicinesByPharmacy"} :
          \E a \in Bearer(h) : Arrive(1, h, a, NoQuery)
    \/ \E h \in {"updateDoctor", "updateMedicine"} :
          \E a \in Bearer(h), i \in 1..MaxOwned, b \in OwnPatches(HandlerKind(h)) :
             Arrive(1, h, a, [id |-> i, body |-> b])
    \/ \E h \in {"deleteDoctor", "deleteMedicine"} : \E a \in Bearer(h), i \in 1..MaxOwned :
          Arrive(1, h, a, [id |-> i])
    \/ addDoctor(1) \/ getDoctorsByHospital(1) \/ updateDoctor(1) \/ deleteDoctor(1)
    \/ addMedicine(1) \/ getMedicinesByPharmacy(1) \/ updateMedicine(1) \/ deleteMedicine(1)
    \/ Reply(1)

SpecOwn == InitCrud /\ [][NextOwn]_vars

\* a request that has arrived is served to its response: the database answers
\* every statement and the event loop resumes every handler that awaits one.
\* Nothing obliges a client to send a further request.
ServeOwn ==
    \/ addDoctor(1) \/ getDoctorsByHospital(1) \/ updateDoctor(1) \/ deleteDoctor(1)
    \/ addMedicine(1) \/ getMedicinesByPharmacy(1) \/ updateMedicine(1) \/ deleteMedicine(1)
    \/ Reply(1)

SpecOwnServed == SpecOwn /\ WF_vars(ServeOwn)

Kinds == {"doctor", "medicine"}

\* slot p holds the answered request `verb` (update or delete) of `kind` on id i
Answered(p, verb, kind, i) ==
    /\ pc[p] = "done"
    /\ req[p].handler = (IF kind = "doctor" THEN verb \o "Doctor" ELSE verb \o "Medicine")
    /\ req[p].input.id = i

DeleteSucceeded(p, kind, i) == Answered(p, "delete", kind, i) /\ res[p].status = 200

\* some update or delete on id i of `kind` has been answered success
Succeeded(kind, i) ==
    \E q \in Procs : /\ Answered(q, "update", kind, i) \/ Answered(q, "delete", kind, i)
                     /\ res[q].status = 200

Absent(kind, i) == \A r \in Rows(kind) : r[Entity(kind).id] # i

(* C11: a delete answers success exactly when a row matches (id, owner), and
   that row is then removed; it answers 404 exactly when no row matches, and
   nothing is removed.  Once a delete of id i has succeeded, no row with id i
   is in the table (so in no list and no search) in any later state, and every
   update or delete on id i that comes after it answers 404. *)
DeleteFinal ==
    /\ [][\A p \in Procs, kind \in Kinds :
            (Runs(p, "delete") /\ HandlerKind(req[p].handler) = kind) =>
               LET hit == {r \in Rows(kind) : /\ r[Entity(kind).id] = req[p].input.id
                                              /\ r[Entity(kind).owner] = req[p].user[1].id}
               IN /\ pc'[p] = "done"
                  /\ Rows(kind)' = Rows(kind) \ hit
                  /\ hit # {} => res'[p].status = 200
                  /\ hit = {} => res'[p] = NotFoundResponse(kind)
         ]_vars
    /\ \A p \in Procs, kind \in Kinds, i \in 1..MaxOwned :
          [](DeleteSucceeded(p, kind, i) =>
                [](/\ Absent(kind, i)
                   /\ pc[p] = "idle" => [](~Succeeded(kind, i))))

\* the rows listByOwner of `owner` is to return
OwnedBy(kind, owner) == {r \in Rows(kind) : r[Entity(kind).owner] = owner}

(* C12: an add authenticated as A, its INSERT being accepted (the id the
   sequence hands out is free), inserts exactly one row, whose owner key is the
   id of A's token whatever owner the body names and whose other fields are the
   body's, and returns that row with 201; the row is then among the rows of A
   and of no other owner.  A list authenticated as A returns exactly the rows
   whose owner key is A's id, in ascending order of name. *)
CreateOwned ==
    [][\A p \in Procs, kind \in Kinds :
        HandlerKind(req[p].handler) = kind =>
          LET A == req[p].user[1].id
              body == req[p].input.body
              e == Entity(kind)
          IN /\ (Runs(p, "insert") /\ \A r \in Rows(kind) : r[e.id] # serial[e.table] + 1) =>
                   \E row \in Rows(kind)' :
                      /\ row \notin Rows(kind) /\ Rows(kind)' = Rows(kind) \cup {row}
                      /\ row[e.owner] = A
                      /\ \A k \in (DOMAIN body \cap DOMAIN row) \ {e.owner} : row[k] = body[k]
                      /\ res'[p].status = 201 /\ res'[p].data = <<row>> /\ pc'[p] = "done"
                      /\ row \in OwnedBy(kind, A)'
                      /\ \A B \in {1, 2} \ {A} : row \notin OwnedBy(kind, B)'
             /\ Runs(p, "list") =>
                   /\ res'[p].status = 200 /\ pc'[p] = "done"
                   /\ Lists(res'[p].data, OwnedBy(kind, A), e.id, e.name)
                   /\ Range(res'[p].data) = OwnedBy(kind, A)
                   /\ Rows(kind)' = Rows(kind)
      ]_vars

\* hospital 1 has added a doctor with a body naming hospital 2 as the owner: the
\* row returned and stored is hospital 1's, next to a row of hospital 2
CreateOwnedWitness ==
    \E p \in Procs :
        /\ pc[p] = "done" /\ req[p].handler = "addDoctor" /\ res[p].status = 201
        /\ req[p].user[1].id = 1
        /\ "hospital_id" \in DOMAIN req[p].input.body /\ req[p].input.body.hospital_id = 2
        /\ res[p].data[1].hospital_id = 1 /\ res[p].data[1] \in doctors
        /\ \E r \in doctors : r.hospital_id = 2

\* the ids of the registered owners of `kind`
OwnerIds(kind) == {o[Entity(kind).owner] : o \in Owners(kind)}

(* C13: whatever the bodies of the requests, every statement of an add, update
   or delete authenticated as owner A adds, changes or removes only rows whose
   owner key is A's id, before and after (so a row keeps the owner that created
   it and only that owner mutates or deletes it), and leaves the rows that
   listByOwner(B) returns as they are for every owner B other than A. *)
OwnerFixed ==
    [][\A p \in Procs, kind \in Kinds :
        (/\ pc[p] \in {"insert", "updateCheck", "updateExec", "delete"}
         /\ pc'[p] # pc[p]
         /\ HandlerKind(req[p].handler) = kind) =>
           LET A == req[p].user[1].id IN
           /\ \A r \in (Rows(kind)' \ Rows(kind)) \cup (Rows(kind) \ Rows(kind)') :
                 r[Entity(kind).owner] = A
           /\ \A B \in OwnerIds(kind) \ {A} : OwnedBy(kind, B)' = OwnedBy(kind, B)
      ]_vars

=============================================================================
